---- MODULE Spec2Model ----
(***************************************************************************)
(* Authentication and session-token lifecycle of the social-media backend  *)
(* (app/services/auth_services.py, app/utils.py, app/auth_dependencies.py, *)
(* app/services/user_services.py, app/database/schemas.py, db.py).         *)
(*                                                                         *)
(* Every request runs on its own task.  A task takes one step per await    *)
(* point of its handler: the database round trip and the code that runs    *)
(* after it up to the next await (or the return) are one atomic step.      *)
(* Time is counted in whole seconds since the start of the run.            *)
(***************************************************************************)
EXTENDS Integers, Sequences, FiniteSets, TLC

\* ------------------------------------------------------------------ bounds
MaxTasks == 2      \* concurrent requests
MaxJti   == 5      \* tokens minted in one run (uuid4 jti drawn from 1..MaxJti)
MaxIds   == 2      \* identities created in one run (uuid4 ids)
MaxTicks == 1      \* clock advances in one run
MaxUuid  == 3      \* posts and upvotes inserted in one run (uuid4 ids)

\* --------------------------------------------------------- program constants
ACCESS_TOKEN_EXPIRY  == 600
REFRESH_TOKEN_EXPIRY == 2
STORED_REFRESH_DAYS  == 7
REFRESHED_ACCESS_MINUTES == 15
MIN_LENGTH == 10
LOGIN_PASSWORD_MIN_LENGTH == 8
USERNAME_MAX_LENGTH == 10
SecondsPerDay == 86400
SecondsPerMinute == 60

HTTP_200_OK == 200
HTTP_201_CREATED == 201
HTTP_400_BAD_REQUEST == 400
HTTP_401_UNAUTHORIZED == 401
HTTP_403_FORBIDDEN == 403
HTTP_404_NOT_FOUND == 404
HTTP_409_CONFLICT == 409
HTTP_422_UNPROCESSABLE_CONTENT == 422
HTTP_500_INTERNAL_SERVER_ERROR == 500

USER_NOT_FOUND == "USER_001"
PERMISSION_DENIED == "USER_003"
INTERNAL_SERVER_ERROR == "SYS_500"
POST_NOT_FOUND == "POST_002"
POST_ALREADY_UPVOTED == "POST_006"
UPVOTE_NOT_FOUND == "POST_007"
AUTH_EMAIL_OR_USERNAME_EXISTS == "AUTH_001"
AUTH_INVALID_CREDENTIALS == "AUTH_002"
AUTH_INVALID_TOKEN == "AUTH_003"
AUTH_TOKEN_EXPIRED == "AUTH_004"
AUTH_USER_NOT_FOUND_FOR_TOKEN == "AUTH_005"
AUTH_TOKEN_MISMATCH == "AUTH_001"

\* SQL NULL / Python None of a nullable column: <<>>; a value v: <<v>>
Null == <<>>
Some(v) == <<v>>

\* ------------------------------------------------------------ input domains
\* passwords are tuples of characters
Str0ngPass1  == <<"S","t","r","0","n","g","!","P","a","s","s","1">>
LongEnough1  == <<"L","o","n","g","E","n","o","u","g","h","1","!">>
short1       == <<"s","h","o","r","t","1","!">>
wrong        == <<"w","r","o","n","g">>
wrongpass    == <<"w","r","o","n","g","p","a","s","s">>

Emails        == {"a@x.com", "b@x.com"}
Usernames     == {"alice", "bob"}
RegisterPasswords == {Str0ngPass1, short1}
LoginPasswords    == {Str0ngPass1, wrong, wrongpass}
AdminEmail    == "root@x.com"
AdminPassword == LongEnough1
TickSteps     == {600, 2 * SecondsPerDay}

Tasks == 1..MaxTasks

\* ---------------------------------------------------- schemas.py validators
UPPERCASE == {"A","B","C","D","E","F","G","H","I","J","K","L","M",
              "N","O","P","Q","R","S","T","U","V","W","X","Y","Z"}
LOWERCASE == {"a","b","c","d","e","f","g","h","i","j","k","l","m",
              "n","o","p","q","r","s","t","u","v","w","x","y","z"}
DIGIT == {"0","1","2","3","4","5","6","7","8","9"}
SPECIAL_CHARS == {"@","$","!","%","*","?","&","#"}

\* re.search(rule, password)
Search(class, password) == \E i \in 1..Len(password) : password[i] \in class

\* variant of PasswordValidator.validate: the special-character rule is missing
PasswordValidator_nospecial(password) ==
    IF Len(password) < MIN_LENGTH THEN "Password must be at least 10 characters long"
    ELSE IF ~Search(UPPERCASE, password) THEN "Password must contain at least one uppercase letter"
    ELSE IF ~Search(LOWERCASE, password) THEN "Password must contain at least one lowercase letter"
    ELSE IF ~Search(DIGIT, password) THEN "Password must contain at least one digit"
    ELSE "ok"

\* PasswordValidator.validate: the first violated rule's message, or "ok"
PasswordValidator(password) ==
    IF Len(password) < MIN_LENGTH THEN "Password must be at least 10 characters long"
    ELSE IF ~Search(UPPERCASE, password) THEN "Password must contain at least one uppercase letter"
    ELSE IF ~Search(LOWERCASE, password) THEN "Password must contain at least one lowercase letter"
    ELSE IF ~Search(DIGIT, password) THEN "Password must contain at least one digit"
    ELSE IF ~Search(SPECIAL_CHARS, password) THEN "Password must contain at least one special character (@$!%*?&#)"
    ELSE "ok"

\* UserCreateModel: username max_length=10, password validator
UserCreateModel(username, password) ==
    IF Len(username) > USERNAME_MAX_LENGTH THEN "String should have at most 10 characters"
    ELSE PasswordValidator(password)

\* variant of UserLoginModel: the login schema repeats a longer minimum than
\* the passwords register accepts
UserLoginModel_min16(password) ==
    IF Len(password) < 16 THEN "String should have at least 16 characters"
    ELSE "ok"

\* UserLoginModel: password min_length=8
UserLoginModel(password) ==
    IF Len(password) < LOGIN_PASSWORD_MIN_LENGTH THEN "String should have at least 8 characters"
    ELSE "ok"

\* ------------------------------------------------------------ utils.py
\* bcrypt digest of a password (the salt is embedded and not modelled)
generate_hash(password) == <<"bcrypt", password>>

verify_password(password, hash) == hash = generate_hash(password)

JWT_SECRET == "JWT_SECRET"

\* jwt.encode(payload, key, HS256): the token string is determined by the
\* payload and the signing key
create_access_token(user_data, expiry, refresh, now, jti) ==
    [user |-> user_data, exp |-> now + expiry, jti |-> jti,
     refresh |-> refresh, key |-> JWT_SECRET]

\* the payload of a token string
Payload(token) ==
    [user |-> token.user, exp |-> token.exp, jti |-> token.jti, refresh |-> token.refresh]

\* variant of decode_token: a token is still decoded at the instant of its exp
decode_token_late(token, now) ==
    IF token.key # JWT_SECRET THEN Null
    ELSE IF token.exp < now THEN Null
    ELSE Some(Payload(token))

\* variant of decode_token: the signature is verified, exp is not
decode_token_noexp(token, now) ==
    IF token.key # JWT_SECRET THEN Null
    ELSE Some(Payload(token))

\* jwt.decode raises InvalidSignatureError for a wrong key and
\* ExpiredSignatureError when exp <= now; decode_token turns both into None
decode_token(token, now) ==
    IF token.key # JWT_SECRET THEN Null
    ELSE IF token.exp <= now THEN Null
    ELSE Some(Payload(token))

\* ------------------------------------------------------- exception_utils.py
AppException(status_code, detail, error_code) ==
    [status_code |-> status_code, detail |-> detail, error_code |-> error_code]

\* fastapi.HTTPException: no error_code
HTTPException(status_code, detail) ==
    [status_code |-> status_code, detail |-> detail]

\* ------------------------------------------------------------------- state
VARIABLES
    users,      \* the user table: a set of rows
    clock,      \* datetime.now(), seconds
    ticks,      \* number of clock advances so far
    nextId,     \* next uuid4 user id
    nextJti,    \* next uuid4 jti
    task,       \* task[t]: position and locals of the handler running on task t
    logins,     \* the successful login responses, in commit order
    refreshed,  \* the access tokens returned by successful refresh calls
    ev,         \* the response (or internal step) produced by the last step
    posts,      \* the posts table: a set of rows
    upvotes,    \* the upvotes table: a set of rows
    nextUuid    \* next uuid4 id of a post or an upvote

vars == <<users, clock, ticks, nextId, nextJti, task, logins, refreshed, ev, posts, upvotes, nextUuid>>

\* the tables of posts_services.py and their id generator
posts_db == <<posts, upvotes, nextUuid>>

Idle == [pc |-> "idle"]
NoEvent == [op |-> "none"]

\* db.py User (SQLAlchemyBaseUserTableUUID + username, refresh_token, ...)
User(id, email, hashed_password, username, is_superuser) ==
    [id |-> id, email |-> email, hashed_password |-> hashed_password,
     username |-> username, is_active |-> TRUE, is_superuser |-> is_superuser,
     is_verified |-> FALSE,
     refresh_token |-> Null, refresh_token_expires_at |-> Null]

UserReadModel(user) == [id |-> user.id, email |-> user.email, username |-> user.username]

\* select(User).where(User.email == email) / where(User.id == id): set of rows
ByEmail(rows, email) == {r \in rows : r.email = email}
ById(rows, id) == {r \in rows : r.id = id}

\* variant of UniqueViolation: username declared without unique=True
UniqueViolation_email_only(rows, row) ==
    \E r \in rows : r.id # row.id /\ r.email = row.email

\* the unique constraints on user.email and user.username
UniqueViolation(rows, row) ==
    \E r \in rows : r.id # row.id /\ (r.email = row.email \/ r.username = row.username)

\* the administrator row provisioned directly in the database (no endpoint
\* sets is_superuser)
AdminRow == User(0, AdminEmail, generate_hash(AdminPassword), "root", TRUE)

Init ==
    /\ users = {AdminRow}
    /\ clock = 0
    /\ ticks = 0
    /\ nextId = 1
    /\ nextJti = 1
    /\ task = [t \in Tasks |-> Idle]
    /\ logins = <<>>
    /\ refreshed = {}
    /\ ev = NoEvent
    /\ posts = {}
    /\ upvotes = {}
    /\ nextUuid = 1

\* a response: HTTP status, the exception that produced it (Null on success)
\* and the body of a success
Failure(e) == [status |-> e.status_code, exc |-> Some(e), body |-> Null]
Success(status, body) == [status |-> status, exc |-> Null, body |-> Some(body)]

\* the body of an error response: app.py registers no exception handler, so
\* the framework's default handler renders an HTTPException (AppException is
\* one) as {"detail": ...}; error_code and timestamp stay on the exception
http_exception_handler(e) == [detail |-> e.detail]

\* request validation failure (pydantic), answered before the handler runs
RequestValidationError(msg) ==
    [status_code |-> HTTP_422_UNPROCESSABLE_CONTENT, detail |-> msg]

\* ------------------------------------------------------------ POST /register
\* auth_services.register: the response and the row it inserts (Null: none).
\* The commit checks the unique constraints; dbfail: a commit that violates no
\* constraint raises another SQLAlchemyError
register(register_data, rows, id, dbfail) ==
    LET new_user == User(id, register_data.email, generate_hash(register_data.password),
                         register_data.username, FALSE)
    IN  IF UniqueViolation(rows, new_user)
        THEN [resp |-> Failure(AppException(HTTP_409_CONFLICT,
                          "Email address or username already exists",
                          AUTH_EMAIL_OR_USERNAME_EXISTS)),
              row |-> Null]
        ELSE IF dbfail
        THEN [resp |-> Failure(AppException(HTTP_500_INTERNAL_SERVER_ERROR,
                          "A database error occurred during user creation.",
                          INTERNAL_SERVER_ERROR)),
              row |-> Null]
        ELSE [resp |-> Success(HTTP_201_CREATED, UserReadModel(new_user)),
              row |-> Some(new_user)]

\* register_route: UserCreateModel validation, then register (one await: the
\* commit)
register_route(t, register_data, dbfail) ==
    /\ task[t] = Idle
    /\ LET v == UserCreateModel(register_data.username, register_data.password)
           r == register(register_data, users, nextId, dbfail)
       IN  IF v # "ok"
           THEN /\ ev' = [op |-> "register", req |-> register_data,
                          resp |-> Failure(RequestValidationError(v))]
                /\ UNCHANGED <<users, nextId>>
           ELSE IF r.row = Null
           THEN /\ ev' = [op |-> "register", req |-> register_data, resp |-> r.resp]
                /\ UNCHANGED <<users, nextId>>
           ELSE /\ nextId <= MaxIds
                /\ users' = users \cup {r.row[1]}
                /\ nextId' = nextId + 1
                /\ ev' = [op |-> "register", req |-> register_data, resp |-> r.resp]
    /\ UNCHANGED <<clock, ticks, nextJti, task, logins, refreshed>>
    /\ UNCHANGED posts_db

\* --------------------------------------------------------------- POST /login
\* variant of login_credentials: the password is not verified
login_credentials_noverify(login_data, rows) ==
    LET found == ByEmail(rows, login_data.email) IN
    IF found = {}
    THEN [exc |-> Some(AppException(HTTP_401_UNAUTHORIZED, "Invalid email or password",
                                    AUTH_INVALID_CREDENTIALS)),
          user |-> Null]
    ELSE [exc |-> Null, user |-> Some(CHOOSE u \in found : TRUE)]

\* auth_services.login, lines 90-102: the select by email and verify_password;
\* the AppException raised (exc) or the row found (user)
login_credentials(login_data, rows) ==
    LET found == ByEmail(rows, login_data.email) IN
    IF found = {} \/ \A u \in found : ~verify_password(login_data.password, u.hashed_password)
    THEN [exc |-> Some(AppException(HTTP_401_UNAUTHORIZED, "Invalid email or password",
                                    AUTH_INVALID_CREDENTIALS)),
          user |-> Null]
    ELSE [exc |-> Null, user |-> Some(CHOOSE u \in found : TRUE)]

\* auth_services.login, lines 104-115: the two tokens and the pending update
login_mint(user, now, jti) ==
    LET user_data == [email |-> user.email, user_id |-> user.id] IN
    [access_token |-> create_access_token(user_data, ACCESS_TOKEN_EXPIRY, FALSE, now, jti),
     refresh_token |-> create_access_token(user_data, REFRESH_TOKEN_EXPIRY * SecondsPerDay,
                                           TRUE, now, jti + 1),
     refresh_token_expires_at |-> now + STORED_REFRESH_DAYS * SecondsPerDay]

\* login_route up to login's commit: UserLoginModel validation, select,
\* verify_password, minting
login_select(t, login_data) ==
    /\ task[t] = Idle
    /\ LET v == UserLoginModel(login_data.password)
           c == login_credentials(login_data, users)
       IN  IF v # "ok"
           THEN /\ ev' = [op |-> "login", req |-> login_data,
                          resp |-> Failure(RequestValidationError(v))]
                /\ UNCHANGED <<task, nextJti>>
           ELSE IF c.exc # Null
           THEN /\ ev' = [op |-> "login", req |-> login_data, resp |-> Failure(c.exc[1])]
                /\ UNCHANGED <<task, nextJti>>
           ELSE /\ nextJti + 1 <= MaxJti
                /\ task' = [task EXCEPT ![t] =
                       [pc |-> "login_commit", req |-> login_data, user |-> c.user[1],
                        minted |-> login_mint(c.user[1], clock, nextJti)]]
                /\ nextJti' = nextJti + 2
                /\ ev' = NoEvent
    /\ UNCHANGED <<users, clock, ticks, nextId, logins, refreshed>>
    /\ UNCHANGED posts_db

\* variant of login_update: a stored refresh token is kept, only an empty
\* column is filled
login_update_keep(rows, id, minted) ==
    {IF r.id = id /\ r.refresh_token = Null
     THEN [r EXCEPT !.refresh_token = Some(minted.refresh_token),
                    !.refresh_token_expires_at = Some(minted.refresh_token_expires_at)]
     ELSE r : r \in rows}

\* variant of login_update: the expiry column is not written
login_update_token_only(rows, id, minted) ==
    {IF r.id = id
     THEN [r EXCEPT !.refresh_token = Some(minted.refresh_token)]
     ELSE r : r \in rows}

\* the UPDATE of refresh_token and refresh_token_expires_at that login's commit
\* issues for the row it loaded
login_update(rows, id, minted) ==
    {IF r.id = id
     THEN [r EXCEPT !.refresh_token = Some(minted.refresh_token),
                    !.refresh_token_expires_at = Some(minted.refresh_token_expires_at)]
     ELSE r : r \in rows}

\* the body login returns
LoginResponseModel(user, minted) ==
    [message |-> "Login Successful", access_token |-> minted.access_token,
     refresh_token |-> minted.refresh_token, user |-> UserReadModel(user)]

\* variant of auth_services.login: a failed commit is not rolled back, the
\* minted refresh token stays in the row although the caller gets an error
login_persist_norollback(l, rows, dbfail) ==
    IF ById(rows, l.user.id) = {}
    THEN [resp |-> Failure(AppException(HTTP_500_INTERNAL_SERVER_ERROR,
                       "Failed to process login.", INTERNAL_SERVER_ERROR)),
          rows |-> rows]
    ELSE IF dbfail
    THEN [resp |-> Failure(AppException(HTTP_500_INTERNAL_SERVER_ERROR,
                       "Failed to process login.", INTERNAL_SERVER_ERROR)),
          rows |-> login_update(rows, l.user.id, l.minted)]
    ELSE [resp |-> Success(HTTP_200_OK, LoginResponseModel(l.user, l.minted)),
          rows |-> login_update(rows, l.user.id, l.minted)]

\* auth_services.login, lines 117-138: the commit and the response, or the
\* rollback and the wrapped error; l: the locals after minting.  dbfail: the
\* commit raises; a row deleted since the select makes the UPDATE match
\* nothing (StaleDataError)
login_persist(l, rows, dbfail) ==
    IF dbfail \/ ById(rows, l.user.id) = {}
    THEN [resp |-> Failure(AppException(HTTP_500_INTERNAL_SERVER_ERROR,
                       "Failed to process login.", INTERNAL_SERVER_ERROR)),
          rows |-> rows]
    ELSE [resp |-> Success(HTTP_200_OK, LoginResponseModel(l.user, l.minted)),
          rows |-> login_update(rows, l.user.id, l.minted)]

\* login_route from login's commit on
login_commit(t, dbfail) ==
    /\ task[t].pc = "login_commit"
    /\ LET l == task[t]
           r == login_persist(l, users, dbfail)
       IN  /\ users' = r.rows
           /\ ev' = [op |-> "login", req |-> l.req, resp |-> r.resp]
           /\ logins' = IF r.resp.exc # Null THEN logins
                        ELSE Append(logins, [user_id |-> l.user.id,
                                             access_token |-> l.minted.access_token,
                                             refresh_token |-> l.minted.refresh_token])
    /\ task' = [task EXCEPT ![t] = Idle]
    /\ UNCHANGED <<clock, ticks, nextId, nextJti, refreshed>>
    /\ UNCHANGED posts_db

\* every token string a client can present: the ones handed out so far and
\* one signed with another key
Forged ==
    [user |-> [email |-> "a@x.com", user_id |-> 1], exp |-> 100 * SecondsPerDay,
     jti |-> 0, refresh |-> TRUE, key |-> "attacker"]

tokens ==
    {logins[i].access_token : i \in 1..Len(logins)}
        \cup {logins[i].refresh_token : i \in 1..Len(logins)}
        \cup refreshed

Presentable == tokens \cup {Forged}

\* ------------------------------------------------------------- POST /refresh
\* the except clauses of refresh_access_token_service, applied to an exception
\* raised inside its try block: AppException and KeyError are neither
\* jwt.ExpiredSignatureError nor jwt.InvalidTokenError, so `except Exception`
\* takes them
refresh_except(e) ==
    IF e.type = "ExpiredSignatureError"
    THEN AppException(HTTP_401_UNAUTHORIZED, "Refresh token expired", AUTH_TOKEN_EXPIRED)
    ELSE IF e.type = "InvalidTokenError"
    THEN AppException(HTTP_401_UNAUTHORIZED, "Invalid refresh token", AUTH_INVALID_TOKEN)
    ELSE AppException(HTTP_500_INTERNAL_SERVER_ERROR, "Failed to refresh token",
                      INTERNAL_SERVER_ERROR)

\* an exception raised inside a try block: its class and, for an AppException,
\* its fields
Raised(type, e) == [type |-> type, exc |-> e]

\* the try block of refresh_access_token_service: what it raises, or the
\* response it returns; `raised` is Null or Some(exception)
refresh_try(refresh_token, rows, now, jti) ==
    LET token_data == decode_token(refresh_token, now) IN
    IF token_data = Null
    THEN [raised |-> Some(Raised("AppException",
             AppException(HTTP_401_UNAUTHORIZED, "Invalid token", AUTH_INVALID_TOKEN)))]
    ELSE IF "user_id" \notin DOMAIN token_data[1].user
    THEN [raised |-> Some(Raised("KeyError", [key |-> "user_id"]))]
    ELSE LET found == ById(rows, token_data[1].user.user_id) IN
    IF found = {}
    THEN [raised |-> Some(Raised("AppException",
             AppException(HTTP_401_UNAUTHORIZED, "User not found",
                          AUTH_USER_NOT_FOUND_FOR_TOKEN)))]
    ELSE LET user == CHOOSE u \in found : TRUE IN
    IF user.refresh_token # Some(refresh_token)
    THEN [raised |-> Some(Raised("AppException",
             AppException(HTTP_401_UNAUTHORIZED, "Refresh token mismatch",
                          AUTH_TOKEN_MISMATCH)))]
    ELSE IF user.refresh_token_expires_at[1] < now
    THEN [raised |-> Some(Raised("AppException",
             AppException(HTTP_401_UNAUTHORIZED, "Refresh token expired",
                          AUTH_TOKEN_EXPIRED)))]
    ELSE [raised |-> Null,
          access_token |-> create_access_token(
              [email |-> user.email, user_uuid |-> user.id],
              REFRESHED_ACCESS_MINUTES * SecondsPerMinute, FALSE, now, jti),
          token_type |-> "bearer"]

\* refresh_access_token_service: the response, Failure(exception that leaves
\* the function) or Success(body)
refresh_access_token_service(refresh_token, rows, now, jti) ==
    LET r == refresh_try(refresh_token, rows, now, jti) IN
    IF r.raised # Null
    THEN Failure(refresh_except(r.raised[1]))
    ELSE Success(HTTP_200_OK, [access_token |-> r.access_token, token_type |-> r.token_type])

\* variant of refresh_token_route: a successful refresh consumes the stored
\* refresh token (rotation on use without storing a successor)
refresh_token_route_consuming(t, refresh_token) ==
    /\ task[t] = Idle
    /\ LET r == refresh_access_token_service(refresh_token, users, clock, nextJti) IN
       /\ ev' = [op |-> "refresh", req |-> [refresh_token |-> refresh_token], resp |-> r]
       /\ IF r.exc # Null
          THEN UNCHANGED <<users, nextJti, refreshed>>
          ELSE /\ nextJti <= MaxJti
               /\ nextJti' = nextJti + 1
               /\ refreshed' = refreshed \cup {r.body[1].access_token}
               /\ users' = {IF u.refresh_token = Some(refresh_token)
                            THEN [u EXCEPT !.refresh_token = Null,
                                           !.refresh_token_expires_at = Null]
                            ELSE u : u \in users}
    /\ UNCHANGED <<clock, ticks, nextId, task, logins>>
    /\ UNCHANGED posts_db

\* variant of refresh_token_route: a refused refresh revokes the stored
\* session of the identity the presented token names
refresh_token_route_revoking(t, refresh_token) ==
    /\ task[t] = Idle
    /\ LET r == refresh_access_token_service(refresh_token, users, clock, nextJti) IN
       /\ ev' = [op |-> "refresh", req |-> [refresh_token |-> refresh_token], resp |-> r]
       /\ IF r.exc # Null
          THEN /\ users' = {IF "user_id" \in DOMAIN refresh_token.user
                                 /\ u.id = refresh_token.user.user_id
                            THEN [u EXCEPT !.refresh_token = Null,
                                           !.refresh_token_expires_at = Null]
                            ELSE u : u \in users}
               /\ UNCHANGED <<nextJti, refreshed>>
          ELSE /\ nextJti <= MaxJti
               /\ nextJti' = nextJti + 1
               /\ refreshed' = refreshed \cup {r.body[1].access_token}
               /\ UNCHANGED users
    /\ UNCHANGED <<clock, ticks, nextId, task, logins>>
    /\ UNCHANGED posts_db

\* refresh_token_route: one await (the select), so one step
refresh_token_route(t, refresh_token) ==
    /\ task[t] = Idle
    /\ LET r == refresh_access_token_service(refresh_token, users, clock, nextJti) IN
       /\ ev' = [op |-> "refresh", req |-> [refresh_token |-> refresh_token], resp |-> r]
       /\ IF r.exc # Null
          THEN UNCHANGED <<nextJti, refreshed>>
          ELSE /\ nextJti <= MaxJti
               /\ nextJti' = nextJti + 1
               /\ refreshed' = refreshed \cup {r.body[1].access_token}
    /\ UNCHANGED <<users, clock, ticks, nextId, task, logins>>
    /\ UNCHANGED posts_db

\* ------------------------------------------------------ auth_dependencies.py
\* variant of current_active_user: is_active is not checked
current_active_user_noactive(token, rows, now) ==
    LET token_data == decode_token(token, now) IN
    IF token_data = Null
    THEN [exc |-> Some(HTTPException(HTTP_401_UNAUTHORIZED, "Invalid token")), user |-> Null]
    ELSE IF "user_id" \notin DOMAIN token_data[1].user
    THEN [exc |-> Some(HTTPException(HTTP_401_UNAUTHORIZED, "Invalid credentials")), user |-> Null]
    ELSE LET found == ById(rows, token_data[1].user.user_id) IN
    IF found = {}
    THEN [exc |-> Some(HTTPException(HTTP_401_UNAUTHORIZED, "User not found")), user |-> Null]
    ELSE [exc |-> Null, user |-> Some(CHOOSE u \in found : TRUE)]

\* current_active_user: the HTTPException it raises (exc) or the row it returns
current_active_user(token, rows, now) ==
    LET token_data == decode_token(token, now) IN
    IF token_data = Null
    THEN [exc |-> Some(HTTPException(HTTP_401_UNAUTHORIZED, "Invalid token")), user |-> Null]
    ELSE IF "user_id" \notin DOMAIN token_data[1].user
    THEN \* KeyError, taken by `except Exception`
         [exc |-> Some(HTTPException(HTTP_401_UNAUTHORIZED, "Invalid credentials")), user |-> Null]
    ELSE LET found == ById(rows, token_data[1].user.user_id) IN
    IF found = {}
    THEN [exc |-> Some(HTTPException(HTTP_401_UNAUTHORIZED, "User not found")), user |-> Null]
    ELSE LET user == CHOOSE u \in found : TRUE IN
    IF ~user.is_active
    THEN [exc |-> Some(HTTPException(HTTP_403_FORBIDDEN, "User account is inactive")), user |-> Null]
    ELSE [exc |-> Null, user |-> Some(user)]

\* variant of require_admin: is_superuser is not checked
require_admin_any(token, rows, now) == current_active_user(token, rows, now)

\* require_admin on top of current_active_user
require_admin(token, rows, now) ==
    LET a == current_active_user(token, rows, now) IN
    IF a.exc # Null THEN a
    ELSE IF a.user[1].is_superuser # TRUE
    THEN [exc |-> Some(HTTPException(HTTP_403_FORBIDDEN, "Admin access required")), user |-> Null]
    ELSE a

\* GET /users/me: the authenticator, then the caller's profile
get_current_user(t, token) ==
    /\ task[t] = Idle
    /\ LET a == current_active_user(token, users, clock) IN
       ev' = [op |-> "me", req |-> [token |-> token],
              resp |-> IF a.exc # Null THEN Failure(a.exc[1])
                       ELSE Success(HTTP_200_OK, UserReadModel(a.user[1]))]
    /\ UNCHANGED <<users, clock, ticks, nextId, nextJti, task, logins, refreshed>>
    /\ UNCHANGED posts_db

\* ----------------------------------------------------- GET /users/admin/...
\* an exception no handler catches: the framework answers 500
ServerError(type) ==
    [status_code |-> HTTP_500_INTERNAL_SERVER_ERROR, detail |-> "Internal Server Error",
     type |-> type]

\* list_users_route: require_admin, then get_all_users(user, session), which
\* binds the User to `skip` and the session to `limit`; `skip < 0` raises
\* TypeError before the service's try block
list_users_route(t, token) ==
    /\ task[t] = Idle
    /\ LET a == require_admin(token, users, clock) IN
       ev' = [op |-> "list_users", req |-> [token |-> token],
              resp |-> IF a.exc # Null THEN Failure(a.exc[1])
                       ELSE Failure(ServerError("TypeError"))]
    /\ UNCHANGED <<users, clock, ticks, nextId, nextJti, task, logins, refreshed>>
    /\ UNCHANGED posts_db

\* get_user: require_admin, then get_user_detail(user, user_id, session), which
\* binds the User to `user_id`; UUID(user_id) raises AttributeError, which the
\* service's `except ValueError` does not catch
get_user(t, token, user_id) ==
    /\ task[t] = Idle
    /\ LET a == require_admin(token, users, clock) IN
       ev' = [op |-> "user_detail", req |-> [token |-> token, user_id |-> user_id],
              resp |-> IF a.exc # Null THEN Failure(a.exc[1])
                       ELSE Failure(ServerError("AttributeError"))]
    /\ UNCHANGED <<users, clock, ticks, nextId, nextJti, task, logins, refreshed>>
    /\ UNCHANGED posts_db

\* -------------------------------------------------------------- POST /logout
\* the application mounts auth_router (/register, /login, /refresh),
\* posts_router (/posts/...) and users_router (/users/...): no route matches
\* POST /logout, so the framework answers 404 Not Found and no handler runs
logout_route(t, token) ==
    /\ task[t] = Idle
    /\ ev' = [op |-> "logout", req |-> [token |-> token],
              resp |-> Failure(HTTPException(HTTP_404_NOT_FOUND, "Not Found"))]
    /\ UNCHANGED <<users, clock, ticks, nextId, nextJti, task, logins, refreshed>>
    /\ UNCHANGED posts_db

\* ------------------------------------------------------- PUT /users/{user_id}
Updates == {[field |-> "username", value |-> "bob"], [field |-> "email", value |-> "b@x.com"]}

\* variant of update_user_route: update_user's ownership check is missing
update_auth_noowner(t, token, user_id, update_data) ==
    /\ task[t] = Idle
    /\ LET a == current_active_user(token, users, clock)
           req == [token |-> token, user_id |-> user_id, update_data |-> update_data]
       IN  IF a.exc # Null
           THEN /\ ev' = [op |-> "update", req |-> req, resp |-> Failure(a.exc[1])]
                /\ UNCHANGED task
           ELSE /\ task' = [task EXCEPT ![t] =
                       [pc |-> "update_select", req |-> req, current_user |-> a.user[1]]]
                /\ ev' = NoEvent
    /\ UNCHANGED <<users, clock, ticks, nextId, nextJti, logins, refreshed>>
    /\ UNCHANGED posts_db

\* update_user_route up to the service's select: the authenticator and the
\* ownership check of update_user
update_auth(t, token, user_id, update_data) ==
    /\ task[t] = Idle
    /\ LET a == current_active_user(token, users, clock)
           req == [token |-> token, user_id |-> user_id, update_data |-> update_data]
       IN  IF a.exc # Null
           THEN /\ ev' = [op |-> "update", req |-> req, resp |-> Failure(a.exc[1])]
                /\ UNCHANGED task
           ELSE IF a.user[1].id # user_id /\ ~a.user[1].is_superuser
           THEN /\ ev' = [op |-> "update", req |-> req,
                          resp |-> Failure(AppException(HTTP_403_FORBIDDEN,
                              "Permission denied. You can only update your own profile",
                              PERMISSION_DENIED))]
                /\ UNCHANGED task
           ELSE /\ task' = [task EXCEPT ![t] =
                       [pc |-> "update_select", req |-> req, current_user |-> a.user[1]]]
                /\ ev' = NoEvent
    /\ UNCHANGED <<users, clock, ticks, nextId, nextJti, logins, refreshed>>
    /\ UNCHANGED posts_db

\* update_user's select: the session returns the object it already holds for
\* the caller's own row, a freshly loaded one for another row
update_select(t) ==
    /\ task[t].pc = "update_select"
    /\ LET u == task[t]
           found == ById(users, u.req.user_id)
       IN  IF found = {}
           THEN /\ ev' = [op |-> "update", req |-> u.req,
                          resp |-> Failure(AppException(HTTP_404_NOT_FOUND, "User not found",
                                                        USER_NOT_FOUND))]
                /\ task' = [task EXCEPT ![t] = Idle]
           ELSE /\ task' = [task EXCEPT ![t] =
                       [pc |-> "update_commit", req |-> u.req,
                        current_user |-> u.current_user,
                        user |-> IF u.req.user_id = u.current_user.id
                                 THEN u.current_user
                                 ELSE CHOOSE r \in found : TRUE]]
                /\ ev' = NoEvent
    /\ UNCHANGED <<users, clock, ticks, nextId, nextJti, logins, refreshed>>
    /\ UNCHANGED posts_db

\* the row after update_user's UPDATE: only the attribute whose value differs
\* from the loaded one is written
update_user(r, loaded, update_data) ==
    IF update_data.field = "username" /\ loaded.username # update_data.value
    THEN [r EXCEPT !.username = update_data.value]
    ELSE IF update_data.field = "email" /\ loaded.email # update_data.value
    THEN [r EXCEPT !.email = update_data.value]
    ELSE r

\* update_user's commit and session.refresh; any failure (unique violation,
\* row gone, dbfail) is rolled back and wrapped as 500
update_commit(t, dbfail) ==
    /\ task[t].pc = "update_commit"
    /\ LET u == task[t]
           found == ById(users, u.req.user_id)
           new == update_user(CHOOSE r \in found : TRUE, u.user, u.req.update_data)
       IN  IF dbfail \/ found = {} \/ UniqueViolation(users, new)
           THEN /\ ev' = [op |-> "update", req |-> u.req,
                          resp |-> Failure(AppException(HTTP_500_INTERNAL_SERVER_ERROR,
                                       "Failed to update user", INTERNAL_SERVER_ERROR))]
                /\ UNCHANGED users
           ELSE /\ users' = (users \ found) \cup {new}
                /\ ev' = [op |-> "update", req |-> u.req,
                          resp |-> Success(HTTP_200_OK, UserReadModel(new))]
    /\ task' = [task EXCEPT ![t] = Idle]
    /\ UNCHANGED <<clock, ticks, nextId, nextJti, logins, refreshed>>
    /\ UNCHANGED posts_db

\* ------------------------------------------------ DELETE /users/admin/{user_id}
\* delete_user_route up to the service's select: require_admin (the ownership
\* check of delete_user always passes for an administrator)
delete_auth(t, token, user_id) ==
    /\ task[t] = Idle
    /\ LET a == require_admin(token, users, clock)
           req == [token |-> token, user_id |-> user_id]
       IN  IF a.exc # Null
           THEN /\ ev' = [op |-> "delete", req |-> req, resp |-> Failure(a.exc[1])]
                /\ UNCHANGED task
           ELSE /\ task' = [task EXCEPT ![t] = [pc |-> "delete_select", req |-> req]]
                /\ ev' = NoEvent
    /\ UNCHANGED <<users, clock, ticks, nextId, nextJti, logins, refreshed>>
    /\ UNCHANGED posts_db

\* delete_user's select
delete_select(t) ==
    /\ task[t].pc = "delete_select"
    /\ IF ById(users, task[t].req.user_id) = {}
       THEN /\ ev' = [op |-> "delete", req |-> task[t].req,
                      resp |-> Failure(AppException(HTTP_404_NOT_FOUND, "User not found",
                                                    USER_NOT_FOUND))]
            /\ task' = [task EXCEPT ![t] = Idle]
       ELSE /\ task' = [task EXCEPT ![t] = [pc |-> "delete_commit", req |-> task[t].req]]
            /\ ev' = NoEvent
    /\ UNCHANGED <<users, clock, ticks, nextId, nextJti, logins, refreshed>>
    /\ UNCHANGED posts_db

\* delete_user's session.delete and commit; the user's posts go with the row
\* (relationship cascade), and so do the upvotes on them and the user's own
\* upvotes (ondelete CASCADE)
delete_commit(t, dbfail) ==
    /\ task[t].pc = "delete_commit"
    /\ IF dbfail
       THEN /\ ev' = [op |-> "delete", req |-> task[t].req,
                      resp |-> Failure(AppException(HTTP_500_INTERNAL_SERVER_ERROR,
                                   "Failed to delete user", INTERNAL_SERVER_ERROR))]
            /\ UNCHANGED <<users, posts, upvotes>>
       ELSE /\ users' = users \ ById(users, task[t].req.user_id)
            /\ posts' = {p \in posts : p.user_id # task[t].req.user_id}
            /\ upvotes' = {v \in upvotes : /\ v.user_id # task[t].req.user_id
                                           /\ v.post_id \in {p.id : p \in posts'}}
            /\ ev' = [op |-> "delete", req |-> task[t].req,
                      resp |-> Success(HTTP_200_OK, [message |-> "User deleted successfully"])]
    /\ task' = [task EXCEPT ![t] = Idle]
    /\ UNCHANGED <<clock, ticks, nextId, nextJti, logins, refreshed>>
    /\ UNCHANGED nextUuid

\* ------------------------------------------------------- posts_services.py
\* db.py Post and Upvote rows; the upvotes table has a primary key on id and
\* no other unique constraint
Post(id, user_id) == [id |-> id, user_id |-> user_id]
Upvote(id, user_id, post_id) == [id |-> id, user_id |-> user_id, post_id |-> post_id]

\* POST /posts/text: the authenticator, then create_text_post's INSERT
create_text_post_route(t, token, dbfail) ==
    /\ task[t] = Idle
    /\ LET a == current_active_user(token, users, clock)
           req == [token |-> token]
       IN  IF a.exc # Null
           THEN /\ ev' = [op |-> "create_text_post", req |-> req, resp |-> Failure(a.exc[1])]
                /\ UNCHANGED <<posts, nextUuid>>
           ELSE IF dbfail
           THEN /\ ev' = [op |-> "create_text_post", req |-> req,
                          resp |-> Failure(AppException(HTTP_500_INTERNAL_SERVER_ERROR,
                                       "Failed to create text post", INTERNAL_SERVER_ERROR))]
                /\ UNCHANGED <<posts, nextUuid>>
           ELSE /\ nextUuid <= MaxUuid
                /\ posts' = posts \cup {Post(nextUuid, a.user[1].id)}
                /\ nextUuid' = nextUuid + 1
                /\ ev' = [op |-> "create_text_post", req |-> req,
                          resp |-> Success(HTTP_201_CREATED,
                                           [id |-> nextUuid, user_id |-> a.user[1].id])]
    /\ UNCHANGED <<users, clock, ticks, nextId, nextJti, task, logins, refreshed, upvotes>>

\* the rows that upvote_post and remove_upvote select for a user and a post
existing(rows, post_id, user_id) ==
    {v \in rows : v.post_id = post_id /\ v.user_id = user_id}

\* upvote_post_route up to upvote_post's commit: the authenticator, the select
\* of the post and the select of an existing upvote, read one after the other
\* with no commit of another task in between; scalar_one_or_none raises
\* MultipleResultsFound outside any try block when two rows match
upvote_select(t, token, post_id) ==
    /\ task[t] = Idle
    /\ LET a == current_active_user(token, users, clock)
           req == [token |-> token, post_id |-> post_id]
       IN  IF a.exc # Null
           THEN /\ ev' = [op |-> "upvote", req |-> req, resp |-> Failure(a.exc[1])]
                /\ UNCHANGED task
           ELSE IF \A p \in posts : p.id # post_id
           THEN /\ ev' = [op |-> "upvote", req |-> req,
                          resp |-> Failure(AppException(HTTP_404_NOT_FOUND, "Post not found",
                                                        POST_NOT_FOUND))]
                /\ UNCHANGED task
           ELSE IF Cardinality(existing(upvotes, post_id, a.user[1].id)) > 1
           THEN /\ ev' = [op |-> "upvote", req |-> req,
                          resp |-> Failure(ServerError("MultipleResultsFound"))]
                /\ UNCHANGED task
           ELSE IF existing(upvotes, post_id, a.user[1].id) # {}
           THEN /\ ev' = [op |-> "upvote", req |-> req,
                          resp |-> Failure(AppException(HTTP_400_BAD_REQUEST, "Already upvoted",
                                                        POST_ALREADY_UPVOTED))]
                /\ UNCHANGED task
           ELSE /\ task' = [task EXCEPT ![t] =
                       [pc |-> "upvote_commit", req |-> req, user |-> a.user[1]]]
                /\ ev' = NoEvent
    /\ UNCHANGED <<users, clock, ticks, nextId, nextJti, logins, refreshed>>
    /\ UNCHANGED posts_db

\* upvote_post's INSERT and commit; a failing commit (dbfail, or the foreign
\* key of a row deleted meanwhile) is rolled back and wrapped as 500
upvote_commit(t, dbfail) ==
    /\ task[t].pc = "upvote_commit"
    /\ LET u == task[t] IN
       IF \/ dbfail
          \/ \A p \in posts : p.id # u.req.post_id
          \/ ById(users, u.user.id) = {}
       THEN /\ ev' = [op |-> "upvote", req |-> u.req,
                      resp |-> Failure(AppException(HTTP_500_INTERNAL_SERVER_ERROR,
                                   "Failed to upvote post", INTERNAL_SERVER_ERROR))]
            /\ UNCHANGED <<upvotes, nextUuid>>
       ELSE /\ nextUuid <= MaxUuid
            /\ upvotes' = upvotes \cup {Upvote(nextUuid, u.user.id, u.req.post_id)}
            /\ nextUuid' = nextUuid + 1
            /\ ev' = [op |-> "upvote", req |-> u.req,
                      resp |-> Success(HTTP_201_CREATED,
                                       [message |-> "Post upvoted successfully"])]
    /\ task' = [task EXCEPT ![t] = Idle]
    /\ UNCHANGED <<users, clock, ticks, nextId, nextJti, logins, refreshed, posts>>

\* remove_upvote_route up to remove_upvote's commit: the authenticator and the
\* select of the caller's upvote on the post
remove_select(t, token, post_id) ==
    /\ task[t] = Idle
    /\ LET a == current_active_user(token, users, clock)
           req == [token |-> token, post_id |-> post_id]
       IN  IF a.exc # Null
           THEN /\ ev' = [op |-> "remove_upvote", req |-> req, resp |-> Failure(a.exc[1])]
                /\ UNCHANGED task
           ELSE IF Cardinality(existing(upvotes, post_id, a.user[1].id)) > 1
           THEN /\ ev' = [op |-> "remove_upvote", req |-> req,
                          resp |-> Failure(ServerError("MultipleResultsFound"))]
                /\ UNCHANGED task
           ELSE IF existing(upvotes, post_id, a.user[1].id) = {}
           THEN /\ ev' = [op |-> "remove_upvote", req |-> req,
                          resp |-> Failure(AppException(HTTP_404_NOT_FOUND, "Upvote not found",
                                                        UPVOTE_NOT_FOUND))]
                /\ UNCHANGED task
           ELSE /\ task' = [task EXCEPT ![t] =
                       [pc |-> "remove_commit", req |-> req,
                        upvote_record |->
                            CHOOSE v \in existing(upvotes, post_id, a.user[1].id) : TRUE]]
                /\ ev' = NoEvent
    /\ UNCHANGED <<users, clock, ticks, nextId, nextJti, logins, refreshed>>
    /\ UNCHANGED posts_db

\* remove_upvote's DELETE and commit; a DELETE that matches no row any more
\* only warns
remove_commit(t, dbfail) ==
    /\ task[t].pc = "remove_commit"
    /\ IF dbfail
       THEN /\ ev' = [op |-> "remove_upvote", req |-> task[t].req,
                      resp |-> Failure(AppException(HTTP_500_INTERNAL_SERVER_ERROR,
                                   "Failed to remove upvote", INTERNAL_SERVER_ERROR))]
            /\ UNCHANGED upvotes
       ELSE /\ upvotes' = upvotes \ {task[t].upvote_record}
            /\ ev' = [op |-> "remove_upvote", req |-> task[t].req,
                      resp |-> Success(HTTP_200_OK,
                                       [message |-> "Upvote removed successfully"])]
    /\ task' = [task EXCEPT ![t] = Idle]
    /\ UNCHANGED <<users, clock, ticks, nextId, nextJti, logins, refreshed, posts, nextUuid>>

\* ------------------------------------------------------------------- clock
\* time passes between requests: the steps are minutes and days, a request in
\* flight completes within one instant of this clock
Tick(d) ==
    /\ ticks < MaxTicks
    /\ \A t \in Tasks : task[t] = Idle
    /\ clock' = clock + d
    /\ ticks' = ticks + 1
    /\ ev' = NoEvent
    /\ UNCHANGED <<users, nextId, nextJti, task, logins, refreshed>>
    /\ UNCHANGED posts_db

\* ------------------------------------------------------------ specifications
RegisterRequests ==
    {[email |-> e, username |-> u, password |-> p] :
        e \in Emails, u \in Usernames, p \in RegisterPasswords}
LoginRequests == {[email |-> e, password |-> p] : e \in Emails, p \in LoginPasswords}
AdminLogin == [email |-> AdminEmail, password |-> AdminPassword]

\* the steps of the tasks in T
Register(T) == \E t \in T, r \in RegisterRequests, f \in BOOLEAN : register_route(t, r, f)
LoginSelect(T, R) == \E t \in T, r \in R : login_select(t, r)
LoginCommit(T) == \E t \in T, f \in BOOLEAN : login_commit(t, f)
Refresh(T) == \E t \in T, k \in Presentable : refresh_token_route(t, k)
GetCurrentUser(T) == \E t \in T, k \in Presentable : get_current_user(t, k)
UpdateAuth(T) ==
    \E t \in T, k \in Presentable, i \in 1..MaxIds, d \in Updates : update_auth(t, k, i, d)
UpdateSelect(T) == \E t \in T : update_select(t)
UpdateCommit(T) == \E t \in T, f \in BOOLEAN : update_commit(t, f)
DeleteAuth(T) == \E t \in T, k \in Presentable, i \in 1..MaxIds : delete_auth(t, k, i)
DeleteSelect(T) == \E t \in T : delete_select(t)
DeleteCommit(T) == \E t \in T, f \in BOOLEAN : delete_commit(t, f)
ListUsers(T) == \E t \in T, k \in Presentable : list_users_route(t, k)
GetUser(T) == \E t \in T, k \in Presentable, i \in 1..MaxIds : get_user(t, k, i)
Logout(T) == \E t \in T, k \in Presentable : logout_route(t, k)
Advance == \E d \in TickSteps : Tick(d)

\* the session lifecycle, requests served one at a time, with the clock
Next ==
    \/ Register({1})
    \/ LoginSelect({1}, LoginRequests)
    \/ LoginCommit({1})
    \/ Refresh({1})
    \/ GetCurrentUser({1})
    \/ Advance

Spec == Init /\ [][Next]_vars

\* register, login and refresh requests running concurrently
NextConc ==
    \/ Register(Tasks)
    \/ LoginSelect(Tasks, LoginRequests)
    \/ LoginCommit(Tasks)
    \/ Refresh(Tasks)

SpecConc == Init /\ [][NextConc]_vars

\* every endpoint that writes the user table, and refresh, served one at a
\* time; the administrator logs in too
NextStore ==
    \/ Register({1})
    \/ LoginSelect({1}, LoginRequests \cup {AdminLogin})
    \/ LoginCommit({1})
    \/ Refresh({1})
    \/ UpdateAuth({1})
    \/ UpdateSelect({1})
    \/ UpdateCommit({1})
    \/ DeleteAuth({1})
    \/ DeleteSelect({1})
    \/ DeleteCommit({1})

SpecStore == Init /\ [][NextStore]_vars

\* the session lifecycle with logout requests, served one at a time
NextLogout ==
    \/ Register({1})
    \/ LoginSelect({1}, LoginRequests)
    \/ LoginCommit({1})
    \/ Refresh({1})
    \/ Logout({1})

SpecLogout == Init /\ [][NextLogout]_vars

\* the endpoints behind the authenticator and the admin gate, served one at a
\* time; the administrator logs in too
NextAdmin ==
    \/ Register({1})
    \/ LoginSelect({1}, LoginRequests \cup {AdminLogin})
    \/ LoginCommit({1})
    \/ GetCurrentUser({1})
    \/ ListUsers({1})
    \/ GetUser({1})
    \/ DeleteAuth({1})
    \/ DeleteSelect({1})
    \/ DeleteCommit({1})

SpecAdmin == Init /\ [][NextAdmin]_vars

\* the post ids a client sends: the posts there are, and the id of no post
PostIds == {p.id : p \in posts} \cup {0}

CreateTextPost(T) ==
    \E t \in T, k \in Presentable, f \in BOOLEAN : create_text_post_route(t, k, f)
UpvoteSelect(T) == \E t \in T, k \in Presentable, p \in PostIds : upvote_select(t, k, p)
UpvoteCommit(T) == \E t \in T, f \in BOOLEAN : upvote_commit(t, f)
RemoveSelect(T) == \E t \in T, k \in Presentable, p \in PostIds : remove_select(t, k, p)
RemoveCommit(T) == \E t \in T, f \in BOOLEAN : remove_commit(t, f)

\* users register and log in with a valid password and create posts, one
\* request at a time; upvote_post and remove_upvote requests run concurrently
NextUpvote ==
    \/ \E r \in {[email |-> "a@x.com", username |-> "alice", password |-> Str0ngPass1],
                  [email |-> "b@x.com", username |-> "bob", password |-> Str0ngPass1]} :
          register_route(1, r, FALSE)
    \/ LoginSelect({1}, {q \in LoginRequests : q.password = Str0ngPass1})
    \/ LoginCommit({1})
    \/ CreateTextPost({1})
    \/ UpvoteSelect(Tasks)
    \/ UpvoteCommit(Tasks)
    \/ RemoveSelect(Tasks)
    \/ RemoveCommit(Tasks)

SpecUpvote == Init /\ [][NextUpvote]_vars

\* passwords around each rule of PasswordValidator: too short by one with all
\* four classes, of the minimum length, and long enough but without an
\* uppercase letter, a lowercase letter, a digit, a special character, or with
\* a punctuation mark that is not in SPECIAL_CHARS
NineChars   == <<"A","b","c","d","e","f","1","!","x">>
TenChars    == <<"A","b","c","d","e","f","g","1","!","x">>
NoUppercase == <<"l","o","n","g","e","n","o","u","g","h","1","!">>
NoLowercase == <<"L","O","N","G","E","N","O","U","G","H","1","!">>
NoDigit     == <<"L","o","n","g","E","n","o","u","g","h","!","!">>
NoSpecial   == <<"L","o","n","g","E","n","o","u","g","h","1","2">>
OtherPunctuation == <<"L","o","n","g","E","n","o","u","g","h","1","-">>
PasswordCases ==
    {short1, LongEnough1, Str0ngPass1, NineChars, TenChars, NoUppercase, NoLowercase,
     NoDigit, NoSpecial, OtherPunctuation}

\* registrations with each of these passwords, served one at a time
NextRegister ==
    \E r \in {[email |-> e, username |-> u, password |-> p] :
                  e \in Emails, u \in Usernames, p \in PasswordCases},
       f \in BOOLEAN : register_route(1, r, f)

SpecRegister == Init /\ [][NextRegister]_vars

\* ------------------------------------------------------------------ claims
AllPasswords == RegisterPasswords \cup LoginPasswords \cup {AdminPassword}

\* the logins that returned refresh token k
LoginsOf(k) == {i \in 1..Len(logins) : logins[i].refresh_token = k}

\* k was returned by a login that a later login of the same identity followed
Superseded(k) ==
    \E i \in LoginsOf(k) : \E j \in (i + 1)..Len(logins) :
        logins[j].user_id = logins[i].user_id

\* k was returned by the latest login of its identity
Current(k) ==
    \E i \in LoginsOf(k) : \A j \in (i + 1)..Len(logins) :
        logins[j].user_id # logins[i].user_id

\* k is unexpired and its identity exists
Live(k) == decode_token(k, clock) # Null /\ ById(users, k.user.user_id) # {}

\* refresh accepts k in the current state
Accepted(k) == refresh_access_token_service(k, users, clock, nextJti).exc = Null

\* the request's email is unregistered or its password is not the identity's
WrongCredentials(req, rows) ==
    \A u \in ByEmail(rows, req.email) : ~verify_password(req.password, u.hashed_password)

InvalidCredentials ==
    AppException(HTTP_401_UNAUTHORIZED, "Invalid email or password", AUTH_INVALID_CREDENTIALS)

\* C1: after a successful login, refresh with the refresh token that login
\* returned succeeds, and the Request Authenticator (current_active_user)
\* resolves the new access token to the identity that logged in.
C1_RefreshedTokenAuthenticates ==
    /\ \A i \in 1..Len(logins) :
          LET k == logins[i].refresh_token IN
          Current(k) /\ Live(k) => Accepted(k)
    /\ (ev.op = "refresh" /\ ev.resp.exc = Null) =>
          LET a == current_active_user(ev.resp.body[1].access_token, users, clock) IN
          /\ a.exc = Null
          /\ a.user[1].id = ev.req.refresh_token.user.user_id

\* C2: after two successive logins L1, L2 of one identity, a refresh with
\* L1's refresh token fails with TokenMismatch (401) and a refresh with L2's
\* succeeds.
C2_SupersededTokenMismatch ==
    ev.op = "refresh" =>
        LET k == ev.req.refresh_token IN
        /\ (Superseded(k) /\ Live(k)) =>
              /\ ev.resp.status = HTTP_401_UNAUTHORIZED
              /\ ev.resp.exc # Null
              /\ ev.resp.exc[1].detail = "Refresh token mismatch"
              /\ ev.resp.exc[1].error_code = AUTH_TOKEN_MISMATCH
        /\ (Current(k) /\ Live(k)) => ev.resp.exc = Null

\* C3: in every reachable state, under any interleaving of login and refresh
\* requests, refresh accepts at most one refresh-token string per identity, and
\* no refresh token returned by a login that a later-committed login of the same
\* identity followed is accepted (also when the two logins overlapped).
C3_OneAcceptedRefreshToken ==
    /\ \A u \in users :
          Cardinality({k \in Presentable :
              "user_id" \in DOMAIN k.user /\ k.user.user_id = u.id /\ Accepted(k)}) <= 1
    /\ \A k \in Presentable : Accepted(k) => ~Superseded(k)
    /\ \A t \in Tasks : task[t].pc = "login_commit" =>
          ~Accepted(task[t].minted.refresh_token)

\* two logins of one identity overlapped, the one that minted first committed
\* last, and the overwritten token was presented to refresh and refused
C3_Witness ==
    /\ Len(logins) = 2
    /\ logins[1].user_id = logins[2].user_id
    /\ logins[1].refresh_token.jti > logins[2].refresh_token.jti
    /\ Accepted(logins[2].refresh_token)
    /\ ev.op = "refresh"
    /\ ev.req.refresh_token = logins[1].refresh_token
    /\ ev.resp.exc # Null

\* C4: in every reachable state of the user table, for every identity,
\* refresh_token is null exactly when refresh_token_expires_at is null.
C4_TokenNullIffExpiryNull ==
    \A u \in users : (u.refresh_token = Null) <=> (u.refresh_token_expires_at = Null)

\* an identity with a stored session was updated, and the table also holds an
\* identity that never logged in
C4_Witness ==
    /\ ev.op = "update"
    /\ ev.resp.status = HTTP_200_OK
    /\ \E u \in users : u.id = ev.req.user_id /\ u.refresh_token # Null
    /\ \E u \in users : u.refresh_token = Null

C6_LoginPersistsReturnedToken ==
    (ev.op = "login" /\ ev.resp.status = HTTP_200_OK) =>
        LET b == ev.resp.body[1] IN
        /\ DOMAIN b = {"message", "access_token", "refresh_token", "user"}
        /\ DOMAIN b.user = {"id", "email", "username"}
        /\ b.access_token.refresh = FALSE
        /\ b.refresh_token.refresh = TRUE
        /\ \E u \in users :
              /\ b.user = UserReadModel(u)
              /\ u.email = ev.req.email
              /\ u.refresh_token = Some(b.refresh_token)
              /\ u.refresh_token_expires_at # Null

\* a login of an identity that already had a stored refresh token returned
C6_Witness ==
    /\ ev.op = "login"
    /\ ev.resp.status = HTTP_200_OK
    /\ Len(logins) >= 2
    /\ logins[Len(logins) - 1].user_id = logins[Len(logins)].user_id
    /\ logins[Len(logins)].refresh_token = ev.resp.body[1].refresh_token

\* C7: for every valid (email, username, password) whose email and username
\* are unregistered, register succeeds (the store not failing) and the login
\* with that email and password then passes; and every identity in the table,
\* whatever happened to other identities, logs in with its email and password.
C7_RegisterThenLogin ==
    /\ \A r \in RegisterRequests :
          (/\ UserCreateModel(r.username, r.password) = "ok"
           /\ \A u \in users : u.email # r.email /\ u.username # r.username) =>
              LET o == register(r, users, nextId, FALSE) IN
              /\ o.resp.status = HTTP_201_CREATED
              /\ o.row # Null
              /\ UserLoginModel(r.password) = "ok"
              /\ login_credentials([email |-> r.email, password |-> r.password],
                                   users \cup {o.row[1]}).user = o.row
    /\ \A u \in users, p \in AllPasswords :
          u.hashed_password = generate_hash(p) =>
              LET req == [email |-> u.email, password |-> p]
                  c == login_credentials(req, users)
              IN  /\ UserLoginModel(p) = "ok"
                  /\ c.exc = Null
                  /\ c.user = Some(u)
                  /\ login_persist([req |-> req, user |-> u,
                                    minted |-> login_mint(u, clock, nextJti)],
                                   users, FALSE).resp.status = HTTP_200_OK
    /\ (ev.op = "login" /\ ~WrongCredentials(ev.req, users)) =>
          \/ ev.resp.status = HTTP_200_OK
          \/ ev.resp = Failure(AppException(HTTP_500_INTERNAL_SERVER_ERROR,
                                   "Failed to process login.", INTERNAL_SERVER_ERROR))

\* a registered identity logged in after another identity was registered and
\* then changed or removed
C7_Witness ==
    /\ ev.op = "login"
    /\ ev.resp.status = HTTP_200_OK
    /\ ev.req.email \in Emails
    /\ nextId > 2
    /\ \E u \in users : u.email = ev.req.email /\ u.id = 1
    /\ \A u \in users : u.id # 2 \/ u.email # "b@x.com" \/ u.username # "bob"

\* C8: register fails with Conflict (409) whenever the email or the username
\* already belongs to an identity and then inserts nothing; no two identities
\* ever share an email or a username, so of two registrations of one email or
\* username at most one succeeds.
C8_RegisterConflict ==
    /\ \A r1, r2 \in users :
          r1 # r2 => r1.id # r2.id /\ r1.email # r2.email /\ r1.username # r2.username
    /\ \A r \in RegisterRequests, f \in BOOLEAN :
          (\E u \in users : u.email = r.email \/ u.username = r.username) =>
              LET o == register(r, users, nextId, f) IN
              /\ o.row = Null
              /\ o.resp = Failure(AppException(HTTP_409_CONFLICT,
                                      "Email address or username already exists",
                                      AUTH_EMAIL_OR_USERNAME_EXISTS))
    /\ (ev.op = "register" /\ ev.resp.status = HTTP_409_CONFLICT) =>
          \E u \in users : u.email = ev.req.email \/ u.username = ev.req.username
    /\ (ev.op = "register" /\ ev.resp.status = HTTP_201_CREATED) =>
          /\ Cardinality(ByEmail(users, ev.req.email)) = 1
          /\ Cardinality({u \in users : u.username = ev.req.username}) = 1

\* a registration of a taken username under a new email was refused while
\* another request was in flight
C8_Witness ==
    /\ ev.op = "register"
    /\ ev.resp.status = HTTP_409_CONFLICT
    /\ ByEmail(users, ev.req.email) = {}
    /\ \E u \in users : u.username = ev.req.username
    /\ \E t \in Tasks : task[t].pc = "login_commit"

\* C9: every refresh call rejected because the token is invalid, expired or
\* mismatched, or because its identity no longer exists, is answered 401 with
\* the error code of that failure kind.
C9_RefreshRejectionIs401 ==
    (ev.op = "refresh" /\ ev.resp.exc # Null) =>
        LET r == refresh_try(ev.req.refresh_token, users, clock, nextJti) IN
        /\ ev.resp.status = HTTP_401_UNAUTHORIZED
        /\ ev.resp.exc[1].error_code \in
              {AUTH_INVALID_TOKEN, AUTH_TOKEN_EXPIRED, AUTH_TOKEN_MISMATCH,
               AUTH_USER_NOT_FOUND_FOR_TOKEN}
        /\ r.raised[1].type = "AppException" =>
              ev.resp.exc[1].error_code = r.raised[1].exc.error_code

\* C10: refresh fails with InvalidToken whenever the presented token cannot be
\* decoded or its refresh flag is false; a validly signed, unexpired access
\* token is rejected as InvalidToken and never yields a new access token.
C10_NonRefreshTokenIsInvalidToken ==
    (ev.op = "refresh"
        /\ (decode_token(ev.req.refresh_token, clock) = Null
               \/ ~ev.req.refresh_token.refresh)) =>
        /\ ev.resp.exc # Null
        /\ ev.resp.status = HTTP_401_UNAUTHORIZED
        /\ ev.resp.exc[1].error_code = AUTH_INVALID_TOKEN

\* the rejection the spec calls TokenExpired
TokenExpired ==
    AppException(HTTP_401_UNAUTHORIZED, "Refresh token expired", AUTH_TOKEN_EXPIRED)

\* C11: a refresh whose token equals the identity's stored refresh_token fails
\* with TokenExpired exactly when the persisted refresh_token_expires_at has
\* passed; as long as the persisted expiry has not passed the call is accepted,
\* whatever expiry the token itself carries.
C11_StoredExpiryDecides ==
    ev.op = "refresh" =>
        \A u \in users :
            u.refresh_token = Some(ev.req.refresh_token) =>
                IF u.refresh_token_expires_at[1] < clock
                THEN ev.resp = Failure(TokenExpired)
                ELSE ev.resp.exc = Null

\* C12: refresh never changes the user table: a successful refresh returns
\* only a new access token (and its type), every refresh step leaves every row
\* as it was, and so the refresh token of an identity's latest login is
\* accepted in every state in which it is unexpired and the identity exists,
\* however many refresh calls, of one request or of two interleaved ones, came
\* before.
C12_RefreshLeavesStore ==
    /\ [](/\ \A i \in 1..Len(logins) :
                LET k == logins[i].refresh_token IN
                (Current(k) /\ Live(k)) => Accepted(k)
          /\ (ev.op = "refresh" /\ ev.resp.exc = Null) =>
                /\ DOMAIN ev.resp.body[1] = {"access_token", "token_type"}
                /\ ~ev.resp.body[1].access_token.refresh
                /\ Accepted(ev.req.refresh_token))
    /\ [][ev'.op = "refresh" => users' = users]_vars

\* the refresh token of an identity's only login was accepted a second time
C12_Witness ==
    /\ Len(logins) = 1
    /\ ev.op = "refresh"
    /\ ev.resp.exc = Null
    /\ ev.req.refresh_token = logins[1].refresh_token
    /\ Cardinality(refreshed) = 2

\* C13: logout sets the caller's refresh_token and refresh_token_expires_at to
\* null and is idempotent: every logout of an authenticated identity, the
\* first and any repeated one, returns success and leaves both columns null.
C13_LogoutClearsSession ==
    ev.op = "logout" =>
        LET a == current_active_user(ev.req.token, users, clock) IN
        a.exc = Null =>
            /\ ev.resp.status = HTTP_200_OK
            /\ \A u \in ById(users, a.user[1].id) :
                  u.refresh_token = Null /\ u.refresh_token_expires_at = Null

\* C14: once an identity has logged out, a refresh with the refresh token its
\* preceding login returned is answered 401 and yields no access token, until
\* a new login.
C14_LogoutRevokesRefreshToken ==
    ev.op = "logout" =>
        LET a == current_active_user(ev.req.token, users, clock) IN
        a.exc = Null =>
            \A i \in 1..Len(logins) :
                logins[i].user_id = a.user[1].id =>
                    LET r == refresh_access_token_service(logins[i].refresh_token,
                                                          users, clock, nextJti)
                    IN  r.exc # Null /\ r.status = HTTP_401_UNAUTHORIZED

\* the identity a token was minted for, under either key the code uses
Subject(k) == IF "user_id" \in DOMAIN k.user THEN k.user.user_id ELSE k.user.user_uuid

\* C15: every access token, minted by login or by refresh, expires 600 seconds
\* after it was minted, and the Request Authenticator accepts it at every
\* instant strictly before its expiry and rejects it from that instant on.
C15_AccessTokenLifetime ==
    /\ \A u \in users :
          login_mint(u, clock, nextJti).access_token.exp = clock + 600
    /\ (ev.op = "refresh" /\ ev.resp.exc = Null) =>
          ev.resp.body[1].access_token.exp = clock + 600
    /\ \A k \in tokens :
          (~k.refresh /\ ById(users, Subject(k)) # {}) =>
              \A now \in {k.exp - 1, k.exp} :
                  (current_active_user(k, users, now).exc = Null) <=> (now < k.exp)

\* C16: a refresh token issued by login lives 7 days: the expiry embedded in it
\* and the persisted refresh_token_expires_at are both 7 days (604800 s) after
\* issuance, and a refresh with it succeeds at every instant before that while
\* it is the identity's latest login and the identity exists.
C16_RefreshTokenLifetime ==
    /\ (ev.op = "login" /\ ev.resp.status = HTTP_200_OK) =>
          LET k == ev.resp.body[1].refresh_token IN
          /\ k.exp = clock + 604800
          /\ \A u \in ById(users, k.user.user_id) :
                u.refresh_token_expires_at = Some(clock + 604800)
    /\ \A i \in 1..Len(logins) :
          LET k == logins[i].refresh_token IN
          \A u \in ById(users, k.user.user_id) :
              (Current(k) /\ clock < u.refresh_token_expires_at[1]) => Accepted(k)

\* C17: an access token whose exp is not in the future, presented to the
\* Request Authenticator, yields 401 and no identity, also when it is validly
\* signed and its identity exists and is active.
C17_ExpiredTokenUnauthorized ==
    /\ \A k \in Presentable : \A now \in {clock, k.exp, k.exp + 1} :
          now >= k.exp =>
              LET a == current_active_user(k, users, now) IN
              /\ a.user = Null
              /\ a.exc # Null
              /\ a.exc[1].status_code = HTTP_401_UNAUTHORIZED
    /\ (ev.op = "me" /\ ev.req.token.exp <= clock) =>
          /\ ev.resp.status = HTTP_401_UNAUTHORIZED
          /\ ev.resp.body = Null

\* the access token of a login, validly signed and of an existing active
\* identity, was presented at the instant of its expiry and refused
C17_Witness ==
    /\ ev.op = "me"
    /\ \E i \in 1..Len(logins) : logins[i].access_token = ev.req.token
    /\ ev.req.token.key = JWT_SECRET
    /\ ev.req.token.exp = clock
    /\ \E u \in ById(users, ev.req.token.user.user_id) : u.is_active
    /\ ev.resp = Failure(HTTPException(HTTP_401_UNAUTHORIZED, "Invalid token"))

\* rows with the row of identity id deactivated
Deactivated(rows, id) ==
    {IF r.id = id THEN [r EXCEPT !.is_active = FALSE] ELSE r : r \in rows}

\* C18: the Request Authenticator returns an identity only if the token
\* decodes and the identity it names is in the user table with is_active
\* true; with a decodable token an absent identity yields 401 User not found
\* and an inactive identity 403, also when the identity was deleted or
\* deactivated after the token was issued.
C18_AuthenticatorChecksStore ==
    /\ \A k \in Presentable :
          LET a == current_active_user(k, users, clock)
              d == decode_token(k, clock)
          IN  /\ a.exc = Null =>
                    /\ d # Null
                    /\ a.user # Null
                    /\ a.user[1] \in users
                    /\ a.user[1].id = d[1].user.user_id
                    /\ a.user[1].is_active
              /\ (d # Null /\ "user_id" \in DOMAIN d[1].user) =>
                    /\ ById(users, d[1].user.user_id) = {} =>
                          a = [exc |-> Some(HTTPException(HTTP_401_UNAUTHORIZED,
                                                          "User not found")),
                               user |-> Null]
                    /\ ById(users, d[1].user.user_id) # {} =>
                          current_active_user(k, Deactivated(users, d[1].user.user_id), clock)
                              = [exc |-> Some(HTTPException(HTTP_403_FORBIDDEN,
                                                            "User account is inactive")),
                                 user |-> Null]
    /\ (ev.op = "me" /\ ev.resp.status = HTTP_200_OK) =>
          \E u \in users : u.is_active /\ ev.resp.body[1] = UserReadModel(u)

\* an identity logged in, was deleted by the administrator, and then presented
\* its still unexpired access token
C18_Witness ==
    /\ ev.op = "me"
    /\ \E i \in 1..Len(logins) : logins[i].access_token = ev.req.token
    /\ decode_token(ev.req.token, clock) # Null
    /\ ById(users, ev.req.token.user.user_id) = {}
    /\ ev.resp = Failure(HTTPException(HTTP_401_UNAUTHORIZED, "User not found"))

\* what the Request Authenticator answers when a token does not decode (wrong
\* signature or expired)
DecodeFailure == HTTPException(HTTP_401_UNAUTHORIZED, "Invalid token")

\* C19: a validly signed, unexpired token whose claims lack the identity id,
\* presented to the Request Authenticator, is answered InvalidToken (401,
\* "Invalid token" or error code AUTH_003) as a payload-shape violation, and
\* that answer differs from the one for a signature or expiry failure.
C19_MissingIdIsInvalidToken ==
    ev.op = "me" =>
        LET d == decode_token(ev.req.token, clock) IN
        (d # Null /\ "user_id" \notin DOMAIN d[1].user) =>
            /\ ev.resp.status = HTTP_401_UNAUTHORIZED
            /\ \/ ev.resp.exc[1].detail = "Invalid token"
               \/ /\ "error_code" \in DOMAIN ev.resp.exc[1]
                  /\ ev.resp.exc[1].error_code = AUTH_INVALID_TOKEN
            /\ ev.resp.exc[1] # DecodeFailure

\* the operations behind require_admin
AdminOps == {"list_users", "user_detail", "delete"}

AdminRequired == HTTPException(HTTP_403_FORBIDDEN, "Admin access required")

\* C20: an admin-gated operation (list users, user detail, delete user) runs
\* only for a caller that passed the Request Authenticator and is an
\* administrator; every other authenticated caller is answered 403 Forbidden,
\* and such an answer, like every list or detail request, leaves the user
\* table unchanged.
C20_AdminGate ==
    /\ [](/\ ev.op \in AdminOps =>
                LET a == current_active_user(ev.req.token, users, clock) IN
                /\ (a.exc = Null /\ ~a.user[1].is_superuser) =>
                      ev.resp = Failure(AdminRequired)
                /\ (ev.resp.status \notin {HTTP_401_UNAUTHORIZED, HTTP_403_FORBIDDEN}) =>
                      a.exc = Null /\ a.user[1].is_superuser
          /\ \A t \in Tasks :
                task[t].pc \in {"delete_select", "delete_commit"} =>
                    require_admin(task[t].req.token, users, clock).exc = Null)
    /\ [][/\ users' # users =>
                (ev'.op = "delete" =>
                    require_admin(ev'.req.token, users, clock).exc = Null)
          /\ (ev'.op \in AdminOps /\ ev'.resp.status # HTTP_200_OK) => users' = users]_vars

\* an authenticated caller who is not an administrator asked to delete an
\* existing identity and was refused
C20_Witness ==
    /\ ev.op = "delete"
    /\ ev.resp = Failure(AdminRequired)
    /\ current_active_user(ev.req.token, users, clock).exc = Null
    /\ ById(users, ev.req.user_id) # {}
    /\ ev.req.user_id # ev.req.token.user.user_id

\* the lifetimes the code passes to create_access_token, and none
Durations ==
    {0, ACCESS_TOKEN_EXPIRY, REFRESHED_ACCESS_MINUTES * SecondsPerMinute,
     REFRESH_TOKEN_EXPIRY * SecondsPerDay}

AppErrorResponse == {"detail", "error_code", "timestamp", "path"}

\* C22: every error response of register, login and refresh and of the
\* Request Authenticator has a body with the four fields detail, error_code,
\* timestamp and path.
C22_ErrorBodyShape ==
    (ev.op \in {"register", "login", "refresh", "me"} /\ ev.resp.exc # Null) =>
        AppErrorResponse \subseteq DOMAIN http_exception_handler(ev.resp.exc[1])

\* the error codes of the six auth error kinds, by kind
AuthErrorCodes ==
    [Conflict |-> AUTH_EMAIL_OR_USERNAME_EXISTS,
     InvalidCredentials |-> AUTH_INVALID_CREDENTIALS,
     InvalidToken |-> AUTH_INVALID_TOKEN,
     TokenExpired |-> AUTH_TOKEN_EXPIRED,
     UserNotFoundForToken |-> AUTH_USER_NOT_FOUND_FOR_TOKEN,
     TokenMismatch |-> AUTH_TOKEN_MISMATCH]

\* C23: the auth error kinds Conflict, InvalidCredentials, InvalidToken,
\* TokenExpired, UserNotFoundForToken and TokenMismatch each have their own
\* error_code: no two different kinds share a code, neither in the taxonomy
\* nor in the exceptions register and refresh raise.
C23_DistinctErrorCodes ==
    /\ \A k1, k2 \in DOMAIN AuthErrorCodes :
          k1 # k2 => AuthErrorCodes[k1] # AuthErrorCodes[k2]
    /\ \A r \in RegisterRequests, k \in Presentable :
          LET c == register(r, users, nextId, FALSE).resp
              m == refresh_try(k, users, clock, nextJti).raised
          IN  (/\ c.status = HTTP_409_CONFLICT
               /\ m # Null
               /\ m[1].type = "AppException"
               /\ m[1].exc.detail = "Refresh token mismatch") =>
                  c.exc[1].error_code # m[1].exc.error_code

\* a password has the minimum length and a character of each of the four
\* classes
Strong(password) ==
    /\ Len(password) >= 10
    /\ \A class \in {UPPERCASE, LOWERCASE, DIGIT, SPECIAL_CHARS} :
          \E i \in 1..Len(password) : password[i] \in class

\* C24: register accepts a password exactly when it has the minimum length
\* and contains an uppercase letter, a lowercase letter, a digit and a special
\* character; every other password, such as the 7-character "short1!", is
\* refused with a validation error (422) and creates no identity, and
\* "LongEnough1!" is accepted.
C24_PasswordStrength ==
    /\ ev.op = "register" =>
          /\ (ev.resp.status = HTTP_422_UNPROCESSABLE_CONTENT) <=> ~Strong(ev.req.password)
          /\ ev.req.password = short1 =>
                ev.resp = Failure(RequestValidationError(
                              "Password must be at least 10 characters long"))
          /\ ev.req.password = LongEnough1 =>
                ev.resp.status \in {HTTP_201_CREATED, HTTP_409_CONFLICT,
                                    HTTP_500_INTERNAL_SERVER_ERROR}
    /\ \A u \in users : Strong(u.hashed_password[2])
    /\ \A r \in RegisterRequests :
          (r.password = LongEnough1
              /\ \A u \in users : u.email # r.email /\ u.username # r.username) =>
                  register(r, users, nextId, FALSE).resp.status = HTTP_201_CREATED

\* "LongEnough1!" was registered, and then a password with a digit, both
\* letter cases and the minimum length but no special character was refused
C24_Witness ==
    /\ ev.op = "register"
    /\ ev.req.password = NoSpecial
    /\ ev.resp.status = HTTP_422_UNPROCESSABLE_CONTENT
    /\ \E u \in users : u.hashed_password = generate_hash(LongEnough1) /\ u.id # 0
    /\ \E u \in users : u.hashed_password = generate_hash(TenChars)

\* update_user's refusal of a caller who is neither the target nor a superuser
PermissionDenied ==
    Failure(AppException(HTTP_403_FORBIDDEN,
                         "Permission denied. You can only update your own profile",
                         PERMISSION_DENIED))

C26_DecodeDistinguishesExpired ==
    \A k \in tokens : \A f \in Presentable :
        (k.key = JWT_SECRET /\ k.exp <= clock /\ f.key # JWT_SECRET) =>
            /\ decode_token(k, clock) # decode_token(f, clock)
            /\ current_active_user(k, users, clock).user = Null
            /\ current_active_user(f, users, clock).user = Null
            /\ refresh_access_token_service(k, users, clock, nextJti).exc # Null
            /\ refresh_access_token_service(f, users, clock, nextJti).exc # Null

\* C27: login's mint and persist are atomic.  A login whose store write fails
\* after the tokens were minted leaves every row as it was (the identity's
\* refresh_token and refresh_token_expires_at keep their previous values),
\* returns an error and hands no token to the caller; a login response that
\* carries tokens implies that its refresh token and expiry are in the
\* identity's row.
C27_LoginMintPersistAtomic ==
    /\ [][\A t \in Tasks :
            (task[t].pc = "login_commit" /\ task'[t] = Idle) =>
                IF ev'.resp.exc # Null
                THEN /\ users' = users
                     /\ logins' = logins
                     /\ ev'.resp.body = Null
                     /\ ev'.resp.exc[1].status_code = HTTP_500_INTERNAL_SERVER_ERROR
                ELSE \E u \in users' :
                        /\ u.id = task[t].user.id
                        /\ u.refresh_token = Some(ev'.resp.body[1].refresh_token)
                        /\ u.refresh_token_expires_at =
                               Some(task[t].minted.refresh_token_expires_at)
                        /\ ev'.resp.body[1].refresh_token = task[t].minted.refresh_token
                        /\ ev'.resp.body[1].access_token = task[t].minted.access_token]_vars
    /\ [](ev.op = "login" =>
            IF ev.resp.body = Null
            THEN \A k \in tokens : \A u \in users :
                    (u.email = ev.req.email /\ u.refresh_token = Some(k)) =>
                        \E i \in 1..Len(logins) : logins[i].refresh_token = k
            ELSE \E u \in users : /\ u.email = ev.req.email
                                  /\ u.refresh_token = Some(ev.resp.body[1].refresh_token))

\* a login with the right password failed at its commit, and the identity's
\* row still holds the refresh token of the login before it
C27_Witness ==
    /\ ev.op = "login"
    /\ ev.resp.status = HTTP_500_INTERNAL_SERVER_ERROR
    /\ ev.resp.body = Null
    /\ \E u \in users :
          /\ u.email = ev.req.email
          /\ verify_password(ev.req.password, u.hashed_password)
          /\ u.refresh_token # Null
          /\ \E i \in 1..Len(logins) : u.refresh_token = Some(logins[i].refresh_token)
    /\ nextJti > 4

\* C28: a token minted with the refresh flag set is never accepted by the
\* Request Authenticator as a bearer access token: presenting the refresh
\* token returned by login on a protected route yields no identity.
C28_RefreshTokenIsNoBearer ==
    /\ \A k \in tokens : k.refresh => current_active_user(k, users, clock).user = Null
    /\ (ev.op = "me" /\ ev.req.token.refresh) => ev.resp.body = Null

\* C29: a login refused with InvalidCredentials and a refresh refused for any
\* reason leave every row of the user table as it was (refresh_token,
\* refresh_token_expires_at, password hash and flags of every identity), so
\* wrong-password and bad-token attempts never revoke or replace a session.
C29_FailedAttemptsChangeNothing ==
    [][(\/ ev'.op = "login" /\ ev'.resp = Failure(InvalidCredentials)
        \/ ev'.op = "refresh" /\ ev'.resp.exc # Null) =>
            /\ users' = users
            /\ logins' = logins
            /\ refreshed' = refreshed]_vars

\* a refresh with a token that names an identity with a stored session was
\* refused, and the session is still the one of the identity's last login
C29_Witness ==
    /\ ev.op = "refresh"
    /\ ev.resp.exc # Null
    /\ "user_id" \in DOMAIN ev.req.refresh_token.user
    /\ \E u \in users :
          /\ u.id = ev.req.refresh_token.user.user_id
          /\ u.refresh_token # Null
          /\ u.refresh_token = Some(logins[Len(logins)].refresh_token)

\* C30: under every interleaving of upvote_post and remove_upvote, two
\* concurrent upvote_post calls of one user included, the upvotes table holds
\* at most one record per (user, post); an upvote_post by a user who already
\* has an upvote on the post is refused with 'Already upvoted' and adds no
\* record.
C30_OneUpvotePerUserAndPost ==
    /\ [](\A v, w \in upvotes : (v.user_id = w.user_id /\ v.post_id = w.post_id) => v = w)
    /\ [][\A t \in Tasks :
            (task[t] = Idle /\ ev'.op = "upvote" /\ task'[t] = Idle) =>
                LET a == current_active_user(ev'.req.token, users, clock) IN
                (a.exc = Null /\ existing(upvotes, ev'.req.post_id, a.user[1].id) # {}
                    /\ \A u \in Tasks : task'[u] = task[u]) =>
                        /\ ev'.resp.exc # Null
                        /\ ev'.resp.exc[1].detail = "Already upvoted"
                        /\ upvotes' = upvotes]_vars
====
